---------------------------- MODULE Spec2Model ----------------------------
(***************************************************************************)
(* Model of the two Lua bridges of textadept-modules:                      *)
(*   file_diff/ldiff.cxx    diff(text1, text2)                             *)
(*   spellcheck/lspell.cxx  spell(aff, dic, key) and the four methods of   *)
(*                          the "ta_spell" userdata it returns             *)
(* Host (Lua) strings are byte sequences that may hold the byte 0; the     *)
(* bridges read them through luaL_checkstring, i.e. as C strings.          *)
(***************************************************************************)
EXTENDS Integers, Sequences, FiniteSets

\* ------------------------------------------------------------------ bounds
\* longest host string handed to diff()
MaxLen == 3
\* userdata the spell() constructor may create in one run
MaxHandles == 2
\* longest native suggestion list
MaxSug == 2

\* ------------------------------------------------------------ Lua values
\* byte values: 0 is NUL, 1 and 2 stand for two ordinary characters
Bytes == {0, 1, 2}

RECURSIVE SeqsUpTo(_, _)
SeqsUpTo(S, n) ==
  IF n = 0 THEN {<<>>}
  ELSE LET shorter == SeqsUpTo(S, n - 1)
       IN shorter \cup {Append(s, b) : s \in {x \in shorter : Len(x) = n - 1}, b \in S}

Nil == [t |-> "nil", n |-> 0, s |-> <<>>]
LuaNumber(n) == [t |-> "number", n |-> n, s |-> <<>>]
LuaString(s) == [t |-> "string", n |-> 0, s |-> s]

\* const char * view of a byte buffer: the bytes before the first NUL
CStr(s) ==
  LET nul == {i \in 1..Len(s) : s[i] = 0}
  IN IF nul = {} THEN s
     ELSE SubSeq(s, 1, (CHOOSE i \in nul : \A j \in nul : i <= j) - 1)

\* luaL_checkstring(L, i): TRUE when the argument is accepted (no error raised)
luaL_checkstring(v) == v.t = "string"

\* lua_pushstring(L, p): the host string made from the C string at p
lua_pushstring(p) == LuaString(CStr(p))

\* lua_pushnumber(L, n)
lua_pushnumber(n) == LuaNumber(n)

\* lua_rawseti(L, t, k): t[k] = v
lua_rawseti(t, k, v) == [i \in DOMAIN t \cup {k} |-> IF i = k THEN v ELSE t[i]]

\* lua_newtable / lua_createtable
lua_newtable == <<>>

\* ------------------------------------------------------- the diff engine
\* diff_match_patch.h: enum Operation, as the bridge's documentation states it
DELETE == -1
INSERT == 1
EQUAL == 0

Diff(op, text) == [operation |-> op, text |-> text]

\* character-wise edit script of two C strings
RECURSIVE diff_chars(_, _)
diff_chars(a, b) ==
  IF a = <<>> /\ b = <<>> THEN <<>>
  ELSE IF a = <<>> THEN <<Diff(INSERT, <<Head(b)>>)>> \o diff_chars(a, Tail(b))
  ELSE IF b = <<>> THEN <<Diff(DELETE, <<Head(a)>>)>> \o diff_chars(Tail(a), b)
  ELSE IF Head(a) = Head(b)
       THEN <<Diff(EQUAL, <<Head(a)>>)>> \o diff_chars(Tail(a), Tail(b))
       ELSE <<Diff(DELETE, <<Head(a)>>), Diff(INSERT, <<Head(b)>>)>>
            \o diff_chars(Tail(a), Tail(b))

\* diff_match_patch::diff_main(text1, text2, false): equal texts are one EQUAL
diff_main(a, b) ==
  IF a = b THEN <<Diff(EQUAL, a)>> ELSE diff_chars(a, b)

\* the texts of the operations of one kind in a run of edits, concatenated
RECURSIVE TextOf(_, _)
TextOf(ds, op) ==
  IF ds = <<>> THEN <<>>
  ELSE (IF Head(ds).operation = op THEN Head(ds).text ELSE <<>>) \o TextOf(Tail(ds), op)

\* length of the longest prefix of ds made of edits (EQUAL = FALSE) or of
\* equalities (EQUAL = TRUE)
RECURSIVE RunLen(_, _)
RunLen(ds, eq) ==
  IF ds = <<>> \/ ((Head(ds).operation = EQUAL) # eq) THEN 0
  ELSE 1 + RunLen(Tail(ds), eq)

\* diff_match_patch::diff_cleanupSemantic(diffs): adjacent equalities become
\* one; a run of edits becomes one DELETE followed by one INSERT
RECURSIVE diff_cleanupSemantic(_)
diff_cleanupSemantic(ds) ==
  IF ds = <<>> THEN <<>>
  ELSE LET eq == Head(ds).operation = EQUAL
           n == RunLen(ds, eq)
           run == SubSeq(ds, 1, n)
           rest == diff_cleanupSemantic(SubSeq(ds, n + 1, Len(ds)))
       IN IF eq THEN <<Diff(EQUAL, TextOf(run, EQUAL))>> \o rest
          ELSE (IF TextOf(run, DELETE) = <<>> THEN <<>>
                ELSE <<Diff(DELETE, TextOf(run, DELETE))>>)
               \o (IF TextOf(run, INSERT) = <<>> THEN <<>>
                   ELSE <<Diff(INSERT, TextOf(run, INSERT))>>)
               \o rest

\* ------------------------------------------------------------- variables
VARIABLES
  \* diff(): the two host arguments, the C strings read from them, the edit
  \* script, the iterator, the next table index, the table, the pc
  arg1, arg2, text1, text2, diffs, diff_it, len, tbl, dpc,
  \* lspell.cxx: the host's userdata, the native heap of Hunspell objects,
  \* the number of objects made by new, the char ** of ls_suggest with the
  \* number of native lists not yet freed, ls_suggest's i and table, its pc,
  \* and the last call the host made with its outcome
  ud, hun, nobj, slst, nlists, sg_i, sg_tbl, spc, call

dvars == <<arg1, arg2, text1, text2, diffs, diff_it, len, tbl, dpc>>
svars == <<ud, hun, nobj, slst, nlists, sg_i, sg_tbl, spc, call>>
vars == <<dvars, svars>>

\* diff() has not run
DiffStart ==
  /\ text1 = <<>>
  /\ text2 = <<>>
  /\ diffs = <<>>
  /\ diff_it = 1
  /\ len = 1
  /\ tbl = <<>>
  /\ dpc = "entry"


\* ------------------------------------------------------------ lspell.cxx
LuaBool(b) == [t |-> "boolean", n |-> IF b THEN 1 ELSE 0, s |-> <<>>]
\* a userdata value: n is its identity; 0 is a userdata some other library
\* made (its metatable is not "ta_spell")
UD(u) == [t |-> "userdata", n |-> u, s |-> <<>>]
\* the table ls_suggest returns (its content is sg_tbl)
LuaTable == [t |-> "table", n |-> 0, s |-> <<>>]

\* luaL_optstring(L, i, NULL): TRUE when the argument is accepted
luaL_optstring(v) == v.t \in {"nil", "string"}

\* lua_pushboolean(L, b)
lua_pushboolean(b) == LuaBool(b)

\* the files: the C paths that name a readable, well-formed file
Files == {<<1>>}
\* the words of the word list at a C path (none when it cannot be read)
WordList(p) == IF p \in Files THEN {<<1>>} ELSE {}

\* Hunspell::Hunspell(aff, dic, key): the object new returns. The constructor
\* has no way to report a file it could not load: the object is made anyway.
Hunspell(aff, dic) ==
  LET ok == aff \in Files /\ dic \in Files
  IN [state |-> "live", loaded |-> ok,
      words |-> IF ok THEN WordList(dic) ELSE {}, deletes |-> 0]

\* Hunspell::spell(word)
Hunspell_spell(h, w) == w \in h.words

\* Hunspell::add(word)
Hunspell_add(h, w) == [h EXCEPT !.words = @ \cup {w}]

\* Hunspell::add_dic(dpath, key)
Hunspell_add_dic(h, dpath) == [h EXCEPT !.words = @ \cup WordList(dpath)]

RECURSIVE Rankings(_, _)
Rankings(S, n) ==
  IF n = 0 THEN {<<>>}
  ELSE LET shorter == Rankings(S, n - 1)
       IN shorter \cup
          {Append(r, w) : r \in {x \in shorter : Len(x) = n - 1}, w \in S}

\* Hunspell::suggest(&slst, word): the lists it may return, best first: any
\* ranking of distinct words of the dictionary, or none (how the engine ranks
\* candidates for w is its own business)
Hunspell_suggest(h, w) ==
  {r \in Rankings(h.words, MaxSug) : \A i, j \in 1..Len(r) : r[i] = r[j] => i = j}

\* Hunspell::free_list(&slst, n): frees the n strings and the list; a NULL
\* list is left alone
Hunspell_free_list(l) ==
  IF l.state = "alloc" THEN [l EXCEPT !.state = "freed"]
  ELSE IF l.state = "null" THEN l
  ELSE [l EXCEPT !.state = "double free"]

\* lines 44-50 and 65-67: the fields of the metatable registered as "ta_spell"
ta_spell == {"add_dic", "spell", "suggest", "add_word", "__index"}

\* the fields of the metatable of a userdata
getmetatable(x) == IF x.meta = "ta_spell" THEN ta_spell ELSE {"__gc", "__index"}

\* a check that takes any userdata (lua_touserdata in place of luaL_checkudata)
luaL_checkudata_untyped(v) == v.t = "userdata"

\* luaL_checkudata(L, 1, "ta_spell"): TRUE when the argument is accepted
luaL_checkudata(v) == v.t = "userdata" /\ ud[v.n].meta = "ta_spell"

NoCall ==
  [fn |-> "none", self |-> Nil, a |-> Nil, b |-> Nil, status |-> "ok",
   ret |-> Nil, native |-> <<>>, pre |-> FALSE]

\* what the host sees of a call: the function, its arguments, how it ended,
\* what it returned, the native calls it made in order, and (add_word) what
\* spell answered for the word before the call
Call(fn, self, a, b, status, ret, native, pre) ==
  [fn |-> fn, self |-> self, a |-> a, b |-> b, status |-> status,
   ret |-> ret, native |-> native, pre |-> pre]

ArgError(fn, self, a, b) ==
  Call(fn, self, a, b, "ArgumentTypeError", Nil, <<>>, FALSE)

NoList == [state |-> "null", items |-> <<>>]

SpellStart ==
  /\ ud = [u \in 0..MaxHandles |->
            IF u = 0 THEN [state |-> "live", meta |-> "FILE*", ptr |-> 0]
            ELSE [state |-> "none", meta |-> "none", ptr |-> 0]]
  /\ hun = [p \in 0..MaxHandles |->
             [state |-> "none", loaded |-> FALSE, words |-> {}, deletes |-> 0]]
  /\ nobj = 0
  /\ slst = NoList
  /\ nlists = 0
  /\ sg_i = 0
  /\ sg_tbl = <<>>
  /\ spc = "idle"
  /\ call = NoCall

\* the locals of a finished ls_suggest (its char **, i and table) are gone
\* when the host makes its next move
SuggestGone ==
  /\ slst' = NoList
  /\ sg_i' = 0
  /\ sg_tbl' = <<>>

InitSpell ==
  /\ SpellStart
  /\ DiffStart
  /\ arg1 = Nil
  /\ arg2 = Nil

\* what the host may pass: the values it holds
PathArgs == {LuaString(<<1>>), LuaString(<<2>>), Nil}
KeyArgs == {Nil, LuaBool(TRUE)}
WordArgs == {LuaString(<<1>>), LuaString(<<2, 0, 1>>), Nil}
SelfArgs == {UD(u) : u \in {x \in 0..MaxHandles : ud[x].state = "live"}} \cup {Nil}

\* lines 53-61: spell(aff, dic, key)
spell(aff, dic, key) ==
  /\ spc = "idle"
  /\ nobj < MaxHandles
  /\ IF luaL_checkstring(aff) /\ luaL_checkstring(dic) /\ luaL_optstring(key)
     THEN /\ nobj' = nobj + 1
          /\ hun' = [hun EXCEPT ![nobj + 1] = Hunspell(CStr(aff.s), CStr(dic.s))]
          /\ ud' = [ud EXCEPT ![nobj + 1] =
                      [state |-> "live", meta |-> "ta_spell", ptr |-> nobj + 1]]
          /\ call' = Call("spell_new", Nil, aff, dic, "ok", UD(nobj + 1),
                          <<"Hunspell">>, FALSE)
     ELSE /\ call' = ArgError("spell_new", Nil, aff, dic)
          /\ UNCHANGED <<nobj, hun, ud>>
  /\ SuggestGone
  /\ UNCHANGED <<nlists, spc>>
  /\ UNCHANGED dvars

\* add_dic that loads the word list in place of the handle's words
ls_adddic_replace(self, path, key) ==
  /\ spc = "idle"
  /\ IF luaL_checkudata(self) /\ luaL_checkstring(path) /\ luaL_optstring(key)
     THEN /\ hun' = [hun EXCEPT ![ud[self.n].ptr].words = WordList(CStr(path.s))]
          /\ call' = Call("add_dic", self, path, Nil, "ok", Nil, <<"add_dic">>, FALSE)
     ELSE /\ call' = ArgError("add_dic", self, path, Nil)
          /\ UNCHANGED hun
  /\ SuggestGone
  /\ UNCHANGED <<ud, nobj, nlists, spc>>
  /\ UNCHANGED dvars

\* lines 15-18: spellchecker:add_dic(dic_path, key)
ls_adddic(self, path, key) ==
  /\ spc = "idle"
  /\ IF luaL_checkudata(self) /\ luaL_checkstring(path) /\ luaL_optstring(key)
     THEN /\ hun' = [hun EXCEPT ![ud[self.n].ptr] = Hunspell_add_dic(@, CStr(path.s))]
          /\ call' = Call("add_dic", self, path, Nil, "ok", Nil, <<"add_dic">>, FALSE)
     ELSE /\ call' = ArgError("add_dic", self, path, Nil)
          /\ UNCHANGED hun
  /\ SuggestGone
  /\ UNCHANGED <<ud, nobj, nlists, spc>>
  /\ UNCHANGED dvars

\* line 23: the value ls_spell pushes for a checked handle and word
ls_spell_result(self, word) ==
  lua_pushboolean(Hunspell_spell(hun[ud[self.n].ptr], CStr(word.s)))

\* lines 21-24: spellchecker:spell(word)
ls_spell(self, word) ==
  /\ spc = "idle"
  /\ IF luaL_checkudata(self) /\ luaL_checkstring(word)
     THEN call' = Call("spell", self, word, Nil, "ok", ls_spell_result(self, word),
                       <<"spell">>, FALSE)
     ELSE call' = ArgError("spell", self, word, Nil)
  /\ SuggestGone
  /\ UNCHANGED <<ud, hun, nobj, nlists, spc>>
  /\ UNCHANGED dvars

\* add_word that calls hs->spell in place of hs->add
ls_addword_spell(self, word) ==
  /\ spc = "idle"
  /\ IF luaL_checkudata(self) /\ luaL_checkstring(word)
     THEN call' = Call("add_word", self, word, Nil, "ok", Nil, <<"spell">>,
                       Hunspell_spell(hun[ud[self.n].ptr], CStr(word.s)))
     ELSE call' = ArgError("add_word", self, word, Nil)
  /\ SuggestGone
  /\ UNCHANGED <<ud, hun, nobj, nlists, spc>>
  /\ UNCHANGED dvars

\* lines 39-42: spellchecker:add_word(word)
ls_addword(self, word) ==
  /\ spc = "idle"
  /\ IF luaL_checkudata(self) /\ luaL_checkstring(word)
     THEN /\ hun' = [hun EXCEPT ![ud[self.n].ptr] = Hunspell_add(@, CStr(word.s))]
          /\ call' = Call("add_word", self, word, Nil, "ok", Nil, <<"add">>,
                          Hunspell_spell(hun[ud[self.n].ptr], CStr(word.s)))
     ELSE /\ call' = ArgError("add_word", self, word, Nil)
          /\ UNCHANGED hun
  /\ SuggestGone
  /\ UNCHANGED <<ud, nobj, nlists, spc>>
  /\ UNCHANGED dvars

\* a copy that stores element i at key i
ls_suggest_store_at_i(t, i, l) == lua_rawseti(t, i, lua_pushstring(l.items[i + 1]))

\* line 33: one element copied out of the native list
ls_suggest_store(t, i, l) == lua_rawseti(t, i + 1, lua_pushstring(l.items[i + 1]))

\* lines 28-31: spellchecker:suggest(word) up to the loop
ls_suggest(self, word) ==
  /\ spc = "idle"
  /\ IF luaL_checkudata(self) /\ luaL_checkstring(word)
     THEN /\ \E r \in Hunspell_suggest(hun[ud[self.n].ptr], CStr(word.s)) :
               /\ slst' = IF r = <<>> THEN NoList
                          ELSE [state |-> "alloc", items |-> r]
               /\ nlists' = nlists + (IF r = <<>> THEN 0 ELSE 1)
          /\ sg_tbl' = lua_newtable
          /\ sg_i' = 0
          /\ spc' = "suggest"
          /\ call' = Call("suggest", self, word, Nil, "running", Nil,
                          <<"suggest">>, FALSE)
     ELSE /\ call' = ArgError("suggest", self, word, Nil)
          /\ SuggestGone
          /\ UNCHANGED <<nlists, spc>>
  /\ UNCHANGED <<ud, hun, nobj>>
  /\ UNCHANGED dvars

\* lines 32-33: one iteration of the copy loop
ls_suggest_loop ==
  /\ spc = "suggest"
  /\ sg_i < Len(slst.items)
  /\ sg_tbl' = ls_suggest_store(sg_tbl, sg_i, slst)
  /\ sg_i' = sg_i + 1
  /\ UNCHANGED <<ud, hun, nobj, slst, nlists, spc, call>>
  /\ UNCHANGED dvars

\* lines 34-35: the loop has ended; the list is freed and the table returned
ls_suggest_return ==
  /\ spc = "suggest"
  /\ sg_i >= Len(slst.items)
  /\ slst' = Hunspell_free_list(slst)
  /\ nlists' = nlists - (IF slst.state = "alloc" THEN 1 ELSE 0)
  /\ call' = [call EXCEPT !.status = "ok", !.ret = LuaTable,
                          !.native = Append(@, "free_list")]
  /\ spc' = "idle"
  /\ UNCHANGED <<ud, hun, nobj, sg_i, sg_tbl>>
  /\ UNCHANGED dvars

\* the host drops its last reference to a handle and its collector takes the
\* userdata: it calls the __gc field of the userdata's metatable when there
\* is one, and frees the block
collect(u) ==
  /\ spc = "idle"
  /\ ud[u].state = "live"
  /\ ud[u].meta = "ta_spell"
  /\ ud' = [ud EXCEPT ![u].state = "collected"]
  /\ hun' = IF "__gc" \in getmetatable(ud[u])
            THEN [hun EXCEPT ![ud[u].ptr].state = "deleted",
                             ![ud[u].ptr].deletes = @ + 1]
            ELSE hun
  /\ call' = NoCall
  /\ SuggestGone
  /\ UNCHANGED <<nobj, nlists, spc>>
  /\ UNCHANGED dvars

NextSpell ==
  \/ \E aff \in PathArgs, dic \in PathArgs, key \in KeyArgs : spell(aff, dic, key)
  \/ \E self \in SelfArgs, path \in PathArgs, key \in KeyArgs : ls_adddic(self, path, key)
  \/ \E self \in SelfArgs, word \in WordArgs : ls_spell(self, word)
  \/ \E self \in SelfArgs, word \in WordArgs : ls_addword(self, word)
  \/ \E self \in SelfArgs, word \in WordArgs : ls_suggest(self, word)
  \/ ls_suggest_loop
  \/ ls_suggest_return
  \/ \E u \in 1..MaxHandles : collect(u)

Spec == InitSpell /\ [][NextSpell]_vars


\* ------------------------------------------ properties of the spell bridge
Handles == 1..MaxHandles
Methods == {"add_dic", "spell", "suggest", "add_word"}
Words == {w \in WordArgs : w.t = "string"}

\* a userdata the constructor made and the host still holds
Usable(u) == ud[u].state = "live" /\ ud[u].meta = "ta_spell"

\* a value that is a handle made by the constructor
IsHandle(v) == v.t = "userdata" /\ v.n \in Handles /\ ud[v.n].meta = "ta_spell"

Recognised(u, w) == ls_spell_result(UD(u), w) = LuaBool(TRUE)

\* C1: the Hunspell object of every handle the host has collected has been
\* released exactly once, and no object is ever released twice.
C1_ReleasedOnce ==
  \A u \in Handles :
    /\ ud[u].state = "collected" => hun[ud[u].ptr].deletes = 1
    /\ ud[u].state # "none" => hun[ud[u].ptr].deletes <= 1

\* C2: a call of add_dic, spell, suggest or add_word whose first argument is
\* not a handle made by the constructor ends in an argument type error, makes
\* no native call, changes neither a userdata nor a Hunspell object and
\* allocates no native list.
C2_TypeCheckedFirst ==
  [][(call'.fn \in Methods /\ ~IsHandle(call'.self)) =>
       /\ call'.status = "ArgumentTypeError"
       /\ call'.native = <<>>
       /\ UNCHANGED <<ud, hun, nobj, nlists, spc>>]_vars

C2_Witness ==
  /\ call.fn \in Methods
  /\ call.self = UD(0)
  /\ call.status = "ArgumentTypeError"
  /\ \E u \in Handles : Usable(u)

\* C3: a constructor call whose affix or dictionary path names no readable,
\* well-formed file ends in a LoadError and returns nothing, and no handle
\* wraps a dictionary that failed to load.
C3_LoadError ==
  /\ (/\ call.fn = "spell_new"
      /\ call.status # "ArgumentTypeError"
      /\ ~(CStr(call.a.s) \in Files /\ CStr(call.b.s) \in Files))
     => (call.status = "LoadError" /\ call.ret = Nil)
  /\ \A u \in Handles : ud[u].meta = "ta_spell" => hun[ud[u].ptr].loaded

\* C8: a word spell answers true for on a handle the host holds is still
\* answered true after any step (add_word, add_dic, or a call on another
\* handle) that leaves the host holding the handle.
C8_SpellMonotone ==
  [][\A u \in Handles : \A w \in Words :
       (Usable(u) /\ Recognised(u, w)) => (Usable(u)' => Recognised(u, w)')]_vars

C8_Witness ==
  /\ call.fn = "add_dic"
  /\ call.status = "ok"
  /\ WordList(CStr(call.a.s)) # {}
  /\ \E w \in Words :
       /\ CStr(w.s) \notin WordList(CStr(call.a.s))
       /\ Recognised(call.self.n, w)
  /\ \E u \in Handles : u # call.self.n /\ Usable(u)

\* C9: when add_word(h, w) returns for a word spell(h, w) answered false for,
\* spell(h, w) answers true.
C9_AddWordEffect ==
  [][\A u \in Handles : \A w \in Words :
       (/\ call'.fn = "add_word"
        /\ call'.status = "ok"
        /\ call'.self = UD(u)
        /\ call'.a = w
        /\ ~Recognised(u, w)) => Recognised(u, w)']_vars

C9_Witness ==
  /\ call.fn = "add_word"
  /\ call.status = "ok"
  /\ ~call.pre
  /\ Recognised(call.self.n, call.a)

\* C10: ls_suggest copies the n native candidates to keys 1..n of the table
\* in the engine's order, frees the native list once, after the last copy and
\* before it returns, and leaves no native list allocated.
C10_CopyThenFree ==
  /\ slst.state \in {"null", "alloc", "freed"}
  /\ nlists = (IF slst.state = "alloc" THEN 1 ELSE 0)
  /\ spc = "idle" => nlists = 0
  /\ slst.state = "freed" => sg_i = Len(slst.items)
  /\ spc = "suggest" =>
       /\ slst.items # <<>> => slst.state = "alloc"
       /\ DOMAIN sg_tbl = 1..sg_i
       /\ \A i \in 1..sg_i : sg_tbl[i] = LuaString(slst.items[i])
  /\ (call.fn = "suggest" /\ call.status = "ok") =>
       /\ call.ret = LuaTable
       /\ call.native = <<"suggest", "free_list">>
       /\ slst.items # <<>> => slst.state = "freed"
       /\ DOMAIN sg_tbl = 1..Len(slst.items)
       /\ \A i \in 1..Len(slst.items) : sg_tbl[i] = LuaString(slst.items[i])

C10_Witness ==
  /\ call.fn = "suggest"
  /\ call.status = "ok"
  /\ slst = [state |-> "freed", items |-> <<<<2>>, <<1>>>>]
  /\ sg_tbl = <<LuaString(<<2>>), LuaString(<<1>>)>>

\* ------------------------------------------------------------ ldiff.cxx
DiffArgs == {LuaString(s) : s \in SeqsUpTo(Bytes, MaxLen)} \cup {Nil}

InitDiff ==
  /\ SpellStart
  /\ arg1 \in DiffArgs
  /\ arg2 \in DiffArgs
  /\ DiffStart

\* stores that advance len once per operation: the text overwrites the kind
diff_store_one_index(t, l, d) ==
  [tbl |-> lua_rawseti(lua_rawseti(t, l, lua_pushnumber(d.operation)),
                       l, lua_pushstring(d.text)),
   len |-> l + 1]

\* stores that push the enumerator's position (0, 1, 2) as the kind
diff_store_position(t, l, d) ==
  [tbl |-> lua_rawseti(lua_rawseti(t, l, lua_pushnumber(d.operation + 1)),
                       l + 1, lua_pushstring(d.text)),
   len |-> l + 2]

\* one iteration's two stores: the table and len after them
diff_store(t, l, d) ==
  [tbl |-> lua_rawseti(lua_rawseti(t, l, lua_pushnumber(d.operation)),
                       l + 1, lua_pushstring(d.text)),
   len |-> l + 2]

\* lines 15-22: argument checks, the engine, the cleanup, the empty table
diff ==
  /\ dpc = "entry"
  /\ IF luaL_checkstring(arg1) /\ luaL_checkstring(arg2)
     THEN /\ text1' = CStr(arg1.s)
          /\ text2' = CStr(arg2.s)
          /\ diffs' = diff_cleanupSemantic(diff_main(CStr(arg1.s), CStr(arg2.s)))
          /\ tbl' = lua_newtable
          /\ diff_it' = 1
          /\ len' = 1
          /\ dpc' = "loop"
     ELSE /\ dpc' = "ArgumentTypeError"
          /\ UNCHANGED <<text1, text2, diffs, tbl, diff_it, len>>
  /\ UNCHANGED <<arg1, arg2>>
  /\ UNCHANGED svars

\* lines 23-26: one iteration of the loop
diff_loop ==
  /\ dpc = "loop"
  /\ diff_it <= Len(diffs)
  /\ tbl' = diff_store(tbl, len, diffs[diff_it]).tbl
  /\ len' = diff_store(tbl, len, diffs[diff_it]).len
  /\ diff_it' = diff_it + 1
  /\ UNCHANGED <<arg1, arg2, text1, text2, diffs, dpc>>
  /\ UNCHANGED svars

\* line 27: the loop has ended, the table is returned
diff_return ==
  /\ dpc = "loop"
  /\ diff_it > Len(diffs)
  /\ dpc' = "returned"
  /\ UNCHANGED <<arg1, arg2, text1, text2, diffs, diff_it, len, tbl>>
  /\ UNCHANGED svars

NextDiff == diff \/ diff_loop \/ diff_return

DiffSpec == InitDiff /\ [][NextDiff]_vars

\* ------------------------------------------------- properties of diff()
\* the flat result read back as (kind, text) pairs: the texts of the pairs
\* whose kind is in kinds, concatenated in order
RECURSIVE FlatConcat(_, _, _)
FlatConcat(t, k, kinds) ==
  IF 2 * k > Cardinality(DOMAIN t) THEN <<>>
  ELSE (IF t[2 * k - 1].n \in kinds THEN t[2 * k].s ELSE <<>>)
       \o FlatConcat(t, k + 1, kinds)

\* C4: when diff() returns, the table holds exactly the keys 1..2N for the N
\* operations of the cleaned-up script, and for every k in 1..N key 2k-1
\* holds operation k's kind and key 2k holds operation k's text (and while
\* the loop runs this is so for the operations already stored).
C4_FlatPairs ==
  dpc \in {"loop", "returned"} =>
    /\ dpc = "returned" => diff_it = Len(diffs) + 1
    /\ DOMAIN tbl = 1..(2 * (diff_it - 1))
    /\ \A k \in 1..(diff_it - 1) :
         /\ tbl[2 * k - 1] = LuaNumber(diffs[k].operation)
         /\ tbl[2 * k] = LuaString(diffs[k].text)

C4_Witness ==
  /\ dpc = "returned"
  /\ Len(diffs) = 4
  /\ Cardinality(DOMAIN tbl) = 8

\* C5: when diff(A, B) returns, the DELETE and EQUAL texts of the flat result
\* concatenate to A and its INSERT and EQUAL texts concatenate to B, for all
\* host buffers A and B.
C5_Reconstruction ==
  dpc = "returned" =>
    /\ FlatConcat(tbl, 1, {DELETE, EQUAL}) = arg1.s
    /\ FlatConcat(tbl, 1, {INSERT, EQUAL}) = arg2.s

C7_Identity ==
  (dpc = "returned" /\ arg1 = arg2) =>
    /\ DOMAIN tbl = 1..2
    /\ tbl[1] = LuaNumber(EQUAL)
    /\ tbl[2] = LuaString(arg1.s)

=============================================================================
